---- MODULE Spec2Model ----
(***************************************************************************)
(* SRP-6a client (src/src/client.rs): SrpClient (the session before the    *)
(* handshake) and SrpClientVerifier (the session after it).                *)
(*                                                                         *)
(* Byte strings are sequences of integers 0..255.  Big integers are TLA+   *)
(* integers; the moduli are primes below 2^16 so that every product stays *)
(* below 2^31.  The digest D, a type parameter of the client, is           *)
(* instantiated with a 16-bit Fletcher-style checksum.                     *)
(***************************************************************************)
EXTENDS Integers, Sequences, FiniteSets, TLC

\* ------------------------------------------------------------------ bounds

\* Longest server public value (b_pub) the peer sends, in bytes.
MaxBPubLen == 2
\* Longest private key handed to the client, in bytes.
MaxKeyLen == 1
\* Largest secret exponent b of the simulated server.
MaxServerSecret == 2

\* Byte values the inputs are built from.
SampleBytes == {0, 1, 7}
\* Byte values the random source yields.
RandBytes == {0, 2, 255}
\* Bits of the expected server proof that a forged reply flips.
FlipBits == {0, 7}

\* The domain parameters {n, g, k} a client or a server may be configured with.
ParamChoices ==
    { [n |-> 251, g |-> 6, k |-> 3],
      [n |-> 257, g |-> 3, k |-> 5],
      [n |-> 23,  g |-> 5, k |-> 3],
      [n |-> 32771, g |-> 2, k |-> 3] }

\* ------------------------------------------------------- bytes and integers

\* All byte strings over S of length at most len.
BytesUpTo(S, len) == UNION { [1..l -> S] : l \in 0..len }

RECURSIVE from_bytes_le(_)
\* BigUint::from_bytes_le: the empty string and any string of zeros give 0.
from_bytes_le(bytes) ==
    IF bytes = <<>> THEN 0
    ELSE Head(bytes) + 256 * from_bytes_le(Tail(bytes))

RECURSIVE to_digits_le(_)
to_digits_le(v) ==
    IF v = 0 THEN <<>> ELSE <<v % 256>> \o to_digits_le(v \div 256)

\* BigUint::to_bytes_le: no high-order zero bytes, and zero is the one byte 0.
to_bytes_le(v) == IF v = 0 THEN <<0>> ELSE to_digits_le(v)

RECURSIVE bits(_)
\* BigUint::bits: the number of bits of v, 0 for v = 0.
bits(v) == IF v = 0 THEN 0 ELSE 1 + bits(v \div 2)

\* ------------------------------------------------------------------ digest

RECURSIVE Absorb(_, _)
\* The two running sums after the bytes of input, from the sums st.
Absorb(st, input) ==
    IF input = <<>> THEN st
    ELSE LET s1 == (st[1] + Head(input) + 1) % 256
             s2 == (st[2] + s1) % 256
         IN  Absorb(<<s1, s2>>, Tail(input))

\* D::new(), d.input(..)..., d.result() over the concatenated input.
Digest(input) == Absorb(<<0, 0>>, input)

\* ---------------------------------------------------------- exponentiation

RECURSIVE powm_loop(_, _, _, _)
powm_loop(result, base, exp, modulus) ==
    IF exp = 0 THEN result
    ELSE powm_loop(IF exp % 2 = 1 THEN (result * base) % modulus ELSE result,
                   (base * base) % modulus, exp \div 2, modulus)

\* tools::powm: base^exp mod modulus by square-and-multiply.
powm(base, exp, modulus) == powm_loop(1, base % modulus, exp, modulus)

\* SrpParams::powm: g^v mod n.
params_powm(p, v) == powm(p.g, v, p.n)

\* ------------------------------------------------------------------ client

\* calc_key: interm = (k * g^x) % n.
calc_interm(p, x) == (p.k * params_powm(p, x)) % p.n

\* calc_key: v as the distance |b_pub - interm| of the source's comment.
calc_v_absolute(p, b_pub, x) ==
    LET interm == calc_interm(p, x)
    IN  IF b_pub > interm THEN (b_pub - interm) % p.n
        ELSE (interm - b_pub) % p.n

\* calc_key: v = (b_pub - interm) mod n, n added first when b_pub <= interm.
calc_v(p, b_pub, x) ==
    LET interm == calc_interm(p, x)
    IN  IF b_pub > interm THEN (b_pub - interm) % p.n
        ELSE (p.n + b_pub - interm) % p.n

\* calc_key: the exponent with the sum reduced too, (a + u*x) % n.
calc_exponent_reduced(p, a, x, u) == (a + ((u * x) % p.n)) % p.n

\* calc_key: the exponent a + (u*x) % n.
calc_exponent(p, a, x, u) == a + ((u * x) % p.n)

\* calc_key: s = v ^ (a + (u*x) % n) mod n.
calc_s(p, a, b_pub, x, u) ==
    powm(calc_v(p, b_pub, x), calc_exponent(p, a, x, u), p.n)

\* SrpClient::calc_key: the digest of s, serialized little-endian.
calc_key(p, a, b_pub, x, u) == Digest(to_bytes_le(calc_s(p, a, b_pub, x, u)))

\* u over the canonical serialization of the integer B, as M1 has it.
calc_u_canonical(a_pub, b_pub_bytes) ==
    from_bytes_le(Digest(to_bytes_le(a_pub)
                             \o to_bytes_le(from_bytes_le(b_pub_bytes))))

\* process_reply: u = H(A || b_pub as received), read as an integer.
calc_u(a_pub, b_pub_bytes) ==
    from_bytes_le(Digest(to_bytes_le(a_pub) \o b_pub_bytes))

\* The safeguard as a test for zero alone, missing the multiples of n.
is_malicious_zero_only(p, b_pub) == b_pub = 0

\* The safeguard rejecting every B outside [1, n) as well.
is_malicious_out_of_range(p, b_pub) == b_pub % p.n = 0 \/ b_pub >= p.n

\* process_reply: the safeguard against a malicious B.
is_malicious(p, b_pub) == b_pub % p.n = 0

\* process_reply: M1 = H(A, B, K).
calc_proof(a_pub, b_pub, key) ==
    Digest(to_bytes_le(a_pub) \o to_bytes_le(b_pub) \o key)

\* process_reply: M2 with the proof hashed first, H(M1, A, K).
calc_server_proof_proof_first(a_pub, proof, key) ==
    Digest(proof \o to_bytes_le(a_pub) \o key)

\* process_reply: M2 = H(A, M1, K).
calc_server_proof(a_pub, proof, key) ==
    Digest(to_bytes_le(a_pub) \o proof \o key)

\* SrpClient::process_reply on the session c: the result returned to the
\* caller.  key_derived records whether calc_key ran.
process_reply(p, c, private_key, b_pub_bytes) ==
    LET u == calc_u(c.a_pub, b_pub_bytes)
        b_pub == from_bytes_le(b_pub_bytes)
    IN  IF is_malicious(p, b_pub)
        THEN [ok |-> FALSE, err |-> "Malicious b_pub value",
              verifier |-> <<>>, key_derived |-> FALSE]
        ELSE LET x == from_bytes_le(private_key)
                 key == calc_key(p, c.a, b_pub, x, u)
                 proof == calc_proof(c.a_pub, b_pub, key)
                 server_proof == calc_server_proof(c.a_pub, proof, key)
             IN  [ok |-> TRUE, err |-> "",
                  verifier |-> << [proof |-> proof,
                                   server_proof |-> server_proof,
                                   key |-> key] >>,
                  key_derived |-> TRUE]

\* SrpClient::new: the session built from the bytes buf of the random source.
new_client(p, buf) ==
    LET a == from_bytes_le(buf)
    IN  [a |-> a, a_pub |-> params_powm(p, a)]

\* The number of random bytes rounded up to whole bytes.
rand_len_rounded_up(p) == (bits(p.n) + 7) \div 8

\* SrpClient::new: l = n.bits()/8, the number of random bytes drawn.
rand_len(p) == bits(p.n) \div 8

\* The password verifier with the multiplier k as its base.
get_password_verifier_base_k(p, private_key) ==
    to_bytes_le(powm(p.k, from_bytes_le(private_key), p.n))

\* SrpClient::get_password_verifier.
get_password_verifier(p, private_key) ==
    to_bytes_le(params_powm(p, from_bytes_le(private_key)))

\* The comparison with its sense inverted.
proof_matches_inverted(server_proof, reply) == server_proof # reply

\* The comparison over the bytes of the reply only, so that a reply cut
\* short matches.
proof_matches_prefix(server_proof, reply) ==
    /\ Len(reply) <= Len(server_proof)
    /\ reply = SubSeq(server_proof, 1, Len(reply))

\* SrpClientVerifier::verify_server: the comparison of the stored proof
\* with the reply, as slices: the same length and the same bytes.
proof_matches(server_proof, reply) == server_proof = reply

\* process_reply taking the session by reference and giving it up only on
\* success: a rejected handshake could be retried on the same session.
client_kept_on_error(c, ok) == IF ok THEN <<>> ELSE <<c>>

\* process_reply(self, ..) takes the session by value: what the caller still
\* holds of the session c once the call has returned.
client_after_process_reply(c, ok) == <<>>

\* verify_server taking the verifier by reference: it stays usable.
verifier_kept(v, reply) == <<v>>

\* verify_server(self, ..) takes the verifier by value.
verifier_after_verify_server(v, reply) == <<>>

\* get_key taking the verifier by reference: it stays usable.
verifier_kept_by_get_key(v) == <<v>>

\* get_key(self) takes the verifier by value.
verifier_after_get_key(v) == <<>>

\* ------------------------------------------------------------------ server

\* The SRP-6a server: its verifier v = g^x mod n.
server_v(sp, x) == powm(sp.g, x, sp.n)

\* The SRP-6a server: B = (k*v + g^b) mod n.
server_b_pub(sp, b, x) ==
    (sp.k * server_v(sp, x) + powm(sp.g, b, sp.n)) % sp.n

\* The SRP-6a server: S = (A * v^u)^b mod n.
server_s(sp, b, x, a_pub, u) ==
    powm((a_pub * powm(server_v(sp, x), u, sp.n)) % sp.n, b, sp.n)

\* The SRP-6a server: K = H(S).
server_key(sp, b, x, a_pub, u) ==
    Digest(to_bytes_le(server_s(sp, b, x, a_pub, u)))

\* The SRP-6a server: u = H(A || B) over the bytes on the wire.
server_u(a_pub_bytes, b_pub_bytes) ==
    from_bytes_le(Digest(a_pub_bytes \o b_pub_bytes))

\* The SRP-6a server: its proof H(A || M1 || K) for the client proof m1.
server_reply(a_pub_bytes, m1, key) == Digest(a_pub_bytes \o m1 \o key)

\* ------------------------------------------------------------------- state

VARIABLES
    params,     \* the SrpParams {n, g, k} the sessions refer to
    client,     \* client[s]: <<>> or << the SrpClient {a, a_pub} >>
    verifier,   \* verifier[s]: <<>> or << the SrpClientVerifier >>
    last,       \* last[s]: the last call made on session s and what it returned
    handshake,  \* handshake[s]: what process_reply was given on session s
    calls       \* calls[s]: how many consuming calls session s has seen

vars == <<params, client, verifier, last, handshake, calls>>

\* The sessions of the run.
Sessions == DOMAIN last

\* Nothing was called on the session yet.
NoCall ==
    [op |-> "none", arg |-> <<>>, ok |-> TRUE, kind |-> "none",
     val |-> <<>>, err |-> ""]

\* A call that returned the bytes val of the given kind.
Returned(op, arg, kind, val) ==
    [op |-> op, arg |-> arg, ok |-> TRUE, kind |-> kind, val |-> val,
     err |-> ""]

\* A call that returned Err(SrpAuthError{description}).
Failed(op, arg, description) ==
    [op |-> op, arg |-> arg, ok |-> FALSE, kind |-> "error", val |-> <<>>,
     err |-> description]

\* A call that did not return: a panic unwound through it to the caller.
Panicked(op, arg) ==
    [op |-> op, arg |-> arg, ok |-> FALSE, kind |-> "panic", val |-> <<>>,
     err |-> ""]

\* process_reply was not called yet.
NoHandshake ==
    [client |-> [a |-> 0, a_pub |-> 0], private_key |-> <<>>,
     b_pub |-> <<>>, server |-> <<>>, key_derived |-> FALSE,
     verifier |-> <<>>]

InitSessions(S) ==
    /\ params \in ParamChoices
    /\ client = [s \in S |-> <<>>]
    /\ verifier = [s \in S |-> <<>>]
    /\ last = [s \in S |-> NoCall]
    /\ handshake = [s \in S |-> NoHandshake]
    /\ calls = [s \in S |-> [process_reply |-> 0, consume |-> 0]]

Init == InitSessions({1})

\* ----------------------------------------------------------------- actions

\* new with the ephemeral pair kept in one place shared by the sessions:
\* creating a session replaces a and a_pub of every session alive.
New_shared_ephemeral(s, buf) ==
    /\ last[s].op = "none"
    /\ client' = [t \in Sessions |->
                     IF t = s \/ client[t] # <<>>
                     THEN << new_client(params, buf) >> ELSE client[t]]
    /\ last' = [last EXCEPT ![s] = Returned("new", buf, "client", <<>>)]
    /\ UNCHANGED <<params, verifier, handshake, calls>>

\* SrpClient::new(&params, &mut rng), the random source yielding buf.
New(s, buf) ==
    /\ last[s].op = "none"
    /\ client' = [client EXCEPT ![s] = << new_client(params, buf) >>]
    /\ last' = [last EXCEPT ![s] = Returned("new", buf, "client", <<>>)]
    /\ UNCHANGED <<params, verifier, handshake, calls>>

\* new returning an error value when the random source fails.
NewRngFails_returns_error(s) ==
    /\ last[s].op = "none"
    /\ last' = [last EXCEPT ![s] = Failed("new", <<>>, "RandomSourceFailure")]
    /\ UNCHANGED <<params, client, verifier, handshake, calls>>

\* SrpClient::new with a random source that fails: gen_iter has no error
\* value to yield and new returns Self, so the failure is a panic in the
\* random source that unwinds through new; no session is built.
NewRngFails(s) ==
    /\ last[s].op = "none"
    /\ last' = [last EXCEPT ![s] = Panicked("new", <<>>)]
    /\ UNCHANGED <<params, client, verifier, handshake, calls>>

\* get_a_pub returning the field a, the secret exponent.
GetAPub_returns_a(s) ==
    /\ client[s] # <<>>
    /\ last' = [last EXCEPT ![s] =
                   Returned("get_a_pub", <<>>, "a_pub",
                            to_bytes_le(client[s][1].a))]
    /\ UNCHANGED <<params, client, verifier, handshake, calls>>

\* SrpClient::get_a_pub(&self).
GetAPub(s) ==
    /\ client[s] # <<>>
    /\ last' = [last EXCEPT ![s] =
                   Returned("get_a_pub", <<>>, "a_pub",
                            to_bytes_le(client[s][1].a_pub))]
    /\ UNCHANGED <<params, client, verifier, handshake, calls>>

\* SrpClient::get_password_verifier(&self, private_key).
GetPasswordVerifier(s, private_key) ==
    /\ client[s] # <<>>
    /\ last' = [last EXCEPT ![s] =
                   Returned("get_password_verifier", private_key,
                            "password_verifier",
                            get_password_verifier(params, private_key))]
    /\ UNCHANGED <<params, client, verifier, handshake, calls>>

\* SrpClient::process_reply(self, private_key, b_pub): self is moved into the
\* call, whatever it returns.  server is << >> or the server that sent b_pub.
ProcessReply(s, private_key, b_pub, server) ==
    /\ client[s] # <<>>
    /\ \E r \in {process_reply(params, client[s][1], private_key, b_pub)} :
           /\ verifier' = [verifier EXCEPT ![s] = r.verifier]
           /\ last' = [last EXCEPT ![s] =
                          IF r.ok
                          THEN Returned("process_reply", b_pub, "verifier", <<>>)
                          ELSE Failed("process_reply", b_pub, r.err)]
           /\ handshake' = [handshake EXCEPT ![s] =
                               [client |-> client[s][1],
                                private_key |-> private_key, b_pub |-> b_pub,
                                server |-> server,
                                key_derived |-> r.key_derived,
                                verifier |-> r.verifier]]
           /\ client' = [client EXCEPT ![s] =
                            client_after_process_reply(client[s][1], r.ok)]
    /\ calls' = [calls EXCEPT ![s].process_reply = @ + 1]
    /\ UNCHANGED params

\* get_proof taking the verifier by value, as get_key does.
GetProof_consumes(s) ==
    /\ verifier[s] # <<>>
    /\ last' = [last EXCEPT ![s] =
                   Returned("get_proof", <<>>, "proof", verifier[s][1].proof)]
    /\ verifier' = [verifier EXCEPT ![s] = <<>>]
    /\ UNCHANGED <<params, client, handshake, calls>>

\* get_proof returning the key field instead of the proof.
GetProof_returns_key(s) ==
    /\ verifier[s] # <<>>
    /\ last' = [last EXCEPT ![s] =
                   Returned("get_proof", <<>>, "key", verifier[s][1].key)]
    /\ UNCHANGED <<params, client, verifier, handshake, calls>>

\* SrpClientVerifier::get_proof(&self).
GetProof(s) ==
    /\ verifier[s] # <<>>
    /\ last' = [last EXCEPT ![s] =
                   Returned("get_proof", <<>>, "proof", verifier[s][1].proof)]
    /\ UNCHANGED <<params, client, verifier, handshake, calls>>

\* SrpClientVerifier::get_key(self).
GetKey(s) ==
    /\ verifier[s] # <<>>
    /\ last' = [last EXCEPT ![s] =
                   Returned("get_key", <<>>, "key", verifier[s][1].key)]
    /\ verifier' = [verifier EXCEPT ![s] = verifier_after_get_key(verifier[s][1])]
    /\ calls' = [calls EXCEPT ![s].consume = @ + 1]
    /\ UNCHANGED <<params, client, handshake>>

\* SrpClientVerifier::verify_server(self, reply).
VerifyServer(s, reply) ==
    /\ verifier[s] # <<>>
    /\ last' = [last EXCEPT ![s] =
                   IF ~proof_matches(verifier[s][1].server_proof, reply)
                   THEN Failed("verify_server", reply, "Incorrect server proof")
                   ELSE Returned("verify_server", reply, "key",
                                 verifier[s][1].key)]
    /\ verifier' = [verifier EXCEPT ![s] =
                       verifier_after_verify_server(verifier[s][1], reply)]
    /\ calls' = [calls EXCEPT ![s].consume = @ + 1]
    /\ UNCHANGED <<params, client, handshake>>

\* The place of session s in the life of a session, from what the caller
\* holds of it and what the last call returned.
LifeState(s) ==
    IF last[s].op = "none" THEN "NoSession"
    ELSE IF client[s] # <<>> THEN "SessionStarted"
    ELSE IF verifier[s] # <<>> THEN "HandshakeVerified"
    ELSE IF ~last[s].ok THEN "Rejected"
    ELSE IF last[s].op = "verify_server" THEN "Authenticated"
    ELSE "KeyExtracted"

\* ------------------------------------------------------------------ inputs

PrivateKeys == BytesUpTo(SampleBytes, MaxKeyLen)

\* What a hostile peer sends as b_pub: short byte strings, and encodings of
\* the multiples of n, with and without a high-order zero byte.
BPubInputs ==
    BytesUpTo(SampleBytes, MaxBPubLen)
        \cup { to_bytes_le(m * params.n) : m \in 1..2 }
        \cup { to_bytes_le(params.n) \o <<0>>, to_bytes_le(params.n + 1) }

\* The simulated SRP-6a servers: their parameters and secret exponent b.
Servers == [p : ParamChoices, b : 1..MaxServerSecret]

\* B as the server srv sends it to a client whose private key is private_key.
ServerBPub(srv, private_key) ==
    to_bytes_le(server_b_pub(srv.p, srv.b, from_bytes_le(private_key)))

\* The session key of the server of session s, from A and B as on the wire.
ServerKey(s) ==
    LET h == handshake[s]
        srv == h.server[1]
        a_pub_bytes == to_bytes_le(h.client.a_pub)
    IN  server_key(srv.p, srv.b, from_bytes_le(h.private_key),
                   from_bytes_le(a_pub_bytes),
                   server_u(a_pub_bytes, h.b_pub))

\* The proof the server of session s returns for the client proof m1.
ServerReply(s, m1) ==
    server_reply(to_bytes_le(handshake[s].client.a_pub), m1, ServerKey(s))

\* byte with bit number bit flipped.
FlipBit(byte, bit) ==
    IF (byte \div (2 ^ bit)) % 2 = 1 THEN byte - 2 ^ bit ELSE byte + 2 ^ bit

\* Replies that differ from m2: one bit flipped, cut short, extended.
Forgeries(m2) ==
    { [m2 EXCEPT ![i] = FlipBit(@, bit)] : i \in 1..Len(m2), bit \in FlipBits }
        \cup { SubSeq(m2, 1, l) : l \in 0..(Len(m2) - 1) }
        \cup { m2 \o <<0>> }

\* What verify_server may be given on session s: the expected proof, the
\* forgeries of it, and the proof of the session's server, if it has one.
Replies(s) ==
    LET v == verifier[s][1]
    IN  {v.server_proof} \cup Forgeries(v.server_proof)
            \cup (IF handshake[s].server = <<>> THEN {}
                  ELSE {ServerReply(s, v.proof)})

\* ----------------------------------------------------------- specification

NextNew ==
    \E s \in Sessions :
        /\ last[s].op = "none"
        /\ \E buf \in [1..rand_len(params) -> RandBytes] : New(s, buf)

NextGetAPub == \E s \in Sessions : GetAPub(s)

NextGetPasswordVerifier ==
    \E s \in Sessions :
        /\ client[s] # <<>>
        /\ \E private_key \in PrivateKeys : GetPasswordVerifier(s, private_key)

\* process_reply on what a hostile peer sent.
NextProcessHostileReply ==
    \E s \in Sessions :
        /\ client[s] # <<>>
        /\ \E private_key \in PrivateKeys, b_pub \in BPubInputs :
               ProcessReply(s, private_key, b_pub, <<>>)

\* process_reply on what an SRP-6a server sent.
NextProcessServerReply ==
    \E s \in Sessions :
        /\ client[s] # <<>>
        /\ \E private_key \in PrivateKeys, srv \in Servers :
               ProcessReply(s, private_key, ServerBPub(srv, private_key),
                            <<srv>>)

NextGetProof == \E s \in Sessions : GetProof(s)

NextGetKey == \E s \in Sessions : GetKey(s)

NextVerifyServer ==
    \E s \in Sessions :
        /\ verifier[s] # <<>>
        /\ \E reply \in Replies(s) : VerifyServer(s, reply)

Next ==
    \/ NextNew
    \/ NextGetAPub
    \/ NextGetPasswordVerifier
    \/ NextProcessHostileReply
    \/ NextProcessServerReply
    \/ NextGetProof
    \/ NextGetKey
    \/ NextVerifyServer

Spec == Init /\ [][Next]_vars

\* ------------------------------------------------------------ two sessions

\* The private key and the server public values of the runs of two sessions.
PairKey == <<7>>
PairBPubs == {<<0>>, <<7>>, <<7, 0>>}

\* Two sessions that share one SrpParams value.
InitPair == InitSessions({1, 2})

PairNew ==
    \E s \in Sessions :
        /\ last[s].op = "none"
        /\ \E buf \in [1..rand_len(params) -> RandBytes] : New(s, buf)

PairGetAPub == \E s \in Sessions : GetAPub(s)

PairGetPasswordVerifier == \E s \in Sessions : GetPasswordVerifier(s, PairKey)

PairProcessReply ==
    \E s \in Sessions :
        /\ client[s] # <<>>
        /\ \E b_pub \in PairBPubs : ProcessReply(s, PairKey, b_pub, <<>>)

PairGetProof == \E s \in Sessions : GetProof(s)

PairGetKey == \E s \in Sessions : GetKey(s)

PairVerifyServer ==
    \E s \in Sessions :
        /\ verifier[s] # <<>>
        /\ \E reply \in {verifier[s][1].server_proof, <<>>} :
               VerifyServer(s, reply)

NextPair ==
    \/ PairNew
    \/ PairGetAPub
    \/ PairGetPasswordVerifier
    \/ PairProcessReply
    \/ PairGetProof
    \/ PairGetKey
    \/ PairVerifyServer

SpecPair == InitPair /\ [][NextPair]_vars

\* The client with a random source that may fail.
NextNewRngFails == \E s \in Sessions : NewRngFails(s)

NextRng ==
    \/ NextNew
    \/ NextNewRngFails
    \/ NextGetAPub
    \/ NextGetPasswordVerifier
    \/ NextProcessHostileReply
    \/ NextProcessServerReply
    \/ NextGetProof
    \/ NextGetKey
    \/ NextVerifyServer

SpecRng == Init /\ [][NextRng]_vars

\* ------------------------------------------------------------------ claims

\* The verifier process_reply returned on session s (kept after it is moved).
Derived(s) == handshake[s].verifier[1]

\* B of session s as the integer process_reply read.
BPubOf(s) == from_bytes_le(handshake[s].b_pub)

\* C1: process_reply rejects every B with B mod N = 0 with the error
\* "Malicious b_pub value"; then no verifier exists and calc_key did not run.
\* A verifier that exists or existed was derived from a B with B mod N # 0.
C1_MaliciousBPubRejected ==
    \A s \in Sessions :
        /\ (verifier[s] # <<>> \/ handshake[s].verifier # <<>>)
               => BPubOf(s) % params.n # 0
        /\ (calls[s].process_reply > 0 /\ BPubOf(s) % params.n = 0)
               => /\ last[s] = Failed("process_reply", handshake[s].b_pub,
                                      "Malicious b_pub value")
                  /\ verifier[s] = <<>>
                  /\ handshake[s].verifier = <<>>
                  /\ ~handshake[s].key_derived

\* A session was handed the encoding of 2*N and returned the error.
C1_Witness ==
    \E s \in Sessions :
        /\ last[s].op = "process_reply"
        /\ ~last[s].ok
        /\ BPubOf(s) = 2 * params.n

\* C2: verify_server returns the key K exactly when the reply equals the
\* expected server proof M2 byte for byte; every other reply gets the error
\* "Incorrect server proof" and no key.
C2_VerifyServerIffMatch ==
    \A s \in Sessions :
        last[s].op = "verify_server" =>
            IF last[s].arg = Derived(s).server_proof
            THEN last[s] = Returned("verify_server", last[s].arg, "key",
                                    Derived(s).key)
            ELSE last[s] = Failed("verify_server", last[s].arg,
                                  "Incorrect server proof")

\* verify_server refused a strict prefix of M2.
C2_Witness ==
    \E s \in Sessions :
        /\ last[s].op = "verify_server"
        /\ ~last[s].ok
        /\ last[s].arg = SubSeq(Derived(s).server_proof, 1, 1)

\* C3: the key is handed to the caller only by get_key or by a verify_server
\* whose reply equalled M2; an error outcome carries no value.
C3_KeyReleasedOnlyByVerifyOrGetKey ==
    \A s \in Sessions :
        /\ last[s].kind = "key" =>
               \/ last[s].op = "get_key"
               \/ /\ last[s].op = "verify_server"
                  /\ last[s].arg = Derived(s).server_proof
        /\ ~last[s].ok => last[s].val = <<>> /\ last[s].kind = "error"
        /\ last[s].op \in {"new", "get_a_pub", "get_password_verifier",
                           "process_reply", "get_proof"}
               => last[s].kind # "key"

\* verify_server failed on a reply with one bit of M2 flipped: no key.
C3_Witness ==
    \E s \in Sessions :
        /\ last[s].op = "verify_server"
        /\ last[s].kind = "error"
        /\ last[s].arg = [Derived(s).server_proof EXCEPT ![2] = FlipBit(@, 7)]

\* What the program holds about session s.
SessionView(s) == <<client[s], verifier[s], last[s], handshake[s], calls[s]>>

\* The steps of the state machine of the design: <<from, call, to>>.
DesignEdges ==
    { <<"NoSession", "new", "SessionStarted">>,
      <<"SessionStarted", "get_a_pub", "SessionStarted">>,
      <<"SessionStarted", "get_password_verifier", "SessionStarted">>,
      <<"SessionStarted", "process_reply", "HandshakeVerified">>,
      <<"SessionStarted", "process_reply", "Rejected">>,
      <<"HandshakeVerified", "get_proof", "HandshakeVerified">>,
      <<"HandshakeVerified", "verify_server", "Authenticated">>,
      <<"HandshakeVerified", "verify_server", "Rejected">> }

\* Every step that changes session s is one of edges.
FollowsEdges(edges) ==
    \A s \in Sessions :
        SessionView(s)' # SessionView(s)
            => <<LifeState(s), last'[s].op, LifeState(s)'>> \in edges

\* C4 as claimed: the only steps of a session are those of the design's state
\* machine; nothing leaves HandshakeVerified but verify_server, and nothing
\* is applicable in Authenticated or Rejected.
C4_Original == [][FollowsEdges(DesignEdges)]_vars

\* C4, amended: the steps of a session are those of the design's state
\* machine and get_key, which takes HandshakeVerified to the terminal state
\* KeyExtracted; nothing is applicable in Authenticated, Rejected or
\* KeyExtracted.
C4_StateMachine ==
    [][FollowsEdges(DesignEdges
           \cup {<<"HandshakeVerified", "get_key", "KeyExtracted">>})]_vars

\* A session ended by get_key, outside the design's state machine.
C4_Witness == \E s \in Sessions : LifeState(s) = "KeyExtracted"

\* C5: a session processes at most one server reply; once process_reply was
\* applied, whatever it returned, the session is gone and neither
\* process_reply nor get_a_pub nor get_password_verifier is applied to it.
C5_OneReplyPerSession ==
    \A s \in Sessions :
        /\ calls[s].process_reply <= 1
        /\ calls[s].process_reply = 1 =>
               /\ client[s] = <<>>
               /\ last[s].op \notin {"new", "get_a_pub",
                                     "get_password_verifier"}
        /\ (last[s].op = "process_reply" /\ ~last[s].ok) =>
               LifeState(s) = "Rejected"

\* A handshake was rejected and the session is gone.
C5_Witness ==
    \E s \in Sessions :
        /\ calls[s].process_reply = 1
        /\ last[s] = Failed("process_reply", handshake[s].b_pub,
                            "Malicious b_pub value")
        /\ client[s] = <<>>

\* C6: a verifier undergoes at most one consuming call; after verify_server
\* (success or failure) or get_key the verifier is gone, and the consuming
\* call stays the last call made on the session.
C6_OneConsumingCallPerVerifier ==
    \A s \in Sessions :
        /\ calls[s].consume <= 1
        /\ calls[s].consume = 1 =>
               /\ verifier[s] = <<>>
               /\ last[s].op \in {"verify_server", "get_key"}
        /\ last[s].op \in {"verify_server", "get_key"} =>
               calls[s].consume = 1

\* verify_server failed and the verifier is gone.
C6_Witness ==
    \E s \in Sessions :
        /\ calls[s].consume = 1
        /\ last[s].op = "verify_server"
        /\ ~last[s].ok
        /\ verifier[s] = <<>>

\* The handshake of session s was run against an SRP-6a server that has the
\* client's parameters, and its B was accepted.
HonestHandshake(s) ==
    /\ handshake[s].server # <<>>
    /\ handshake[s].server[1].p = params
    /\ handshake[s].verifier # <<>>

\* C7: round-trip key agreement.  Against an SRP-6a server with the same
\* parameters, v = g^x, B = (k*v + g^b) mod N and S = (A * v^u)^b mod N, the
\* key process_reply derives equals the server's key H(S).
C7_KeyAgreement ==
    \A s \in Sessions : HonestHandshake(s) => Derived(s).key = ServerKey(s)

\* C8 as claimed: the secret exponent a of every session is in [0, N).
C8_Original ==
    \A s \in Sessions :
        client[s] # <<>> => (0 <= client[s][1].a /\ client[s][1].a < params.n)

\* C8, amended: a is the integer of bits(N)/8 random bytes, so
\* 0 <= a < 256^(bits(N)/8); a < N follows when bits(N) is not a multiple of
\* 8, and a may be N or more when it is.
C8_SecretExponentRange ==
    \A s \in Sessions :
        client[s] # <<>> =>
            /\ 0 <= client[s][1].a
            /\ client[s][1].a < 256 ^ (bits(params.n) \div 8)
            /\ bits(params.n) % 8 # 0 => client[s][1].a < params.n

\* A session whose secret exponent is not below N.
C8_Witness ==
    \E s \in Sessions : client[s] # <<>> /\ client[s][1].a >= params.n

\* verify_server was given, on session s, the proof its server computed from
\* the client's proof and the server's own key.
ServerAnswered(s) ==
    /\ last[s].op = "verify_server"
    /\ handshake[s].server # <<>>
    /\ last[s].arg = ServerReply(s, Derived(s).proof)

\* C9: never success with a wrong key.  When verify_server returns Ok(K) on
\* the proof H(A || M1 || K_server) of the server, K = K_server; a client
\* whose key differs from the server's gets "Incorrect server proof".
C9_NoSuccessWithWrongKey ==
    \A s \in Sessions :
        ServerAnswered(s) =>
            /\ last[s].ok => last[s].val = ServerKey(s)
            /\ Derived(s).key # ServerKey(s) =>
                   last[s] = Failed("verify_server", last[s].arg,
                                    "Incorrect server proof")

\* A server with other parameters answered, the keys differ, and
\* verify_server refused.
C9_Witness ==
    \E s \in Sessions :
        /\ ServerAnswered(s)
        /\ handshake[s].server[1].p # params
        /\ Derived(s).key # ServerKey(s)
        /\ ~last[s].ok

RECURSIVE PowModStep(_, _, _)
\* base^exp mod modulus, one multiplication at a time.
PowModStep(base, exp, modulus) ==
    IF exp = 0 THEN 1 % modulus
    ELSE (base * PowModStep(base, exp - 1, modulus)) % modulus

RECURSIVE PowMod(_, _, _)
\* base^exp mod modulus as (base^8)^(exp / 8) * base^(exp % 8).
PowMod(base, exp, modulus) ==
    IF exp < 8 THEN PowModStep(base, exp, modulus)
    ELSE (PowMod(PowModStep(base, 8, modulus), exp \div 8, modulus)
             * PowModStep(base, exp % 8, modulus)) % modulus

\* C10: get_password_verifier returns g^x mod N, x the private key read as a
\* little-endian integer, whatever a and A are, and leaves the session as
\* it was.
C10_PasswordVerifier ==
    [][\A s \in Sessions :
           (last'[s].op = "get_password_verifier" /\ last'[s] # last[s]) =>
               /\ last'[s].val =
                      to_bytes_le(PowMod(params.g,
                                         from_bytes_le(last'[s].arg),
                                         params.n))
               /\ last'[s].ok
               /\ client[s] # <<>>
               /\ client'[s] = client[s]
               /\ verifier'[s] = verifier[s]
               /\ LifeState(s)' = "SessionStarted"
               /\ params' = params]_vars

\* get_password_verifier returned the verifier of the private key <<7>> on a
\* session that is still usable.
C10_Witness ==
    \E s \in Sessions :
        /\ last[s].op = "get_password_verifier"
        /\ last[s].arg = <<7>>
        /\ last[s].val = to_bytes_le(PowMod(params.g, 7, params.n))
        /\ client[s] # <<>>

\* C11: the public ephemeral of a session is A = g^a mod N and is fixed at
\* creation: sessions with the same a have the same A, and get_a_pub returns
\* the bytes of that A on every call and leaves the session as it was.
C11_PublicEphemeral ==
    [][\A s \in Sessions :
           /\ client'[s] # <<>> =>
                  /\ client'[s][1].a_pub =
                         PowMod(params.g, client'[s][1].a, params.n)
                  /\ \A t \in Sessions :
                         (client'[t] # <<>> /\ client'[t][1].a = client'[s][1].a)
                             => client'[t][1].a_pub = client'[s][1].a_pub
           /\ (client[s] # <<>> /\ client'[s] # <<>>) => client'[s] = client[s]
           /\ (last'[s].op = "get_a_pub" /\ last'[s] # last[s]) =>
                  /\ client[s] # <<>>
                  /\ client'[s] = client[s]
                  /\ last'[s] = Returned("get_a_pub", <<>>, "a_pub",
                                         to_bytes_le(client[s][1].a_pub))
                  /\ LifeState(s)' = "SessionStarted"]_vars

\* Two sessions with the same a > 0; get_a_pub returned A on the first, and
\* the two hold the same A.
C11_Witness ==
    /\ Sessions = {1, 2}
    /\ client[1] # <<>> /\ client[2] # <<>>
    /\ client[1][1].a = client[2][1].a
    /\ client[1][1].a > 0
    /\ last[1].op = "get_a_pub"
    /\ last[1].val = to_bytes_le(client[2][1].a_pub)

\* C12: get_proof does not consume the verifier: it returns the proof M1 that
\* process_reply derived, each time, and leaves M1, M2 and K as they were,
\* so that a later verify_server or get_key returns what it would have.
C12_GetProofAccessor ==
    [][\A s \in Sessions :
           /\ (last'[s].op = "get_proof" /\ last'[s] # last[s]) =>
                  /\ verifier[s] # <<>>
                  /\ verifier'[s] = verifier[s]
                  /\ verifier[s][1] = Derived(s)
                  /\ last'[s] = Returned("get_proof", <<>>, "proof",
                                         Derived(s).proof)
                  /\ LifeState(s)' = "HandshakeVerified"
           /\ (last[s].op = "get_proof" /\ last'[s].op = "get_key") =>
                  last'[s].val = Derived(s).key
           /\ (last[s].op = "get_proof" /\ last'[s].op = "verify_server") =>
                  (last'[s].ok <=> last'[s].arg = Derived(s).server_proof)]_vars

\* get_proof returned M1 and the verifier is still there.
C12_Witness ==
    \E s \in Sessions :
        /\ last[s].op = "get_proof"
        /\ last[s].val = Derived(s).proof
        /\ verifier[s] = <<Derived(s)>>

\* The quantities of the handshake of session s, from the inputs of its
\* process_reply: A as serialized, u, x, interm, v, the exponent and S.
HandshakeABytes(s) == to_bytes_le(handshake[s].client.a_pub)

HandshakeU(s) == from_bytes_le(Digest(HandshakeABytes(s) \o handshake[s].b_pub))

HandshakeX(s) == from_bytes_le(handshake[s].private_key)

HandshakeInterm(s) ==
    (params.k * PowMod(params.g, HandshakeX(s), params.n)) % params.n

HandshakeV(s) == (BPubOf(s) - HandshakeInterm(s)) % params.n

HandshakeExponent(s) ==
    handshake[s].client.a + ((HandshakeU(s) * HandshakeX(s)) % params.n)

HandshakeS(s) == PowMod(HandshakeV(s), HandshakeExponent(s), params.n)

\* B of session s was accepted and calc_key ran.
Accepted(s) == handshake[s].verifier # <<>>

\* process_reply has just returned the verifier of session s.
Returning(s) == Accepted(s) /\ last[s].op = "process_reply"

C14_ReductionChangesNothing ==
    \A s \in Sessions :
        Accepted(s) =>
            calc_s(params, handshake[s].client.a, BPubOf(s), HandshakeX(s),
                   HandshakeU(s))
                = PowMod(HandshakeV(s),
                         handshake[s].client.a + HandshakeU(s) * HandshakeX(s),
                         params.n)

\* C15: for every accepted B, calc_key's v is (B - interm) mod N with
\* 0 <= v < N, interm = (k * g^x) mod N; neither subtraction of calc_key has
\* a negative result, whether B < interm, B = interm or B >= N.
C15_ModularSubtraction ==
    \A s \in Sessions :
        Returning(s) =>
            LET b_pub == BPubOf(s)
                interm == calc_interm(params, HandshakeX(s))
                v == calc_v(params, b_pub, HandshakeX(s))
            IN  /\ interm = HandshakeInterm(s)
                /\ v = (b_pub - interm) % params.n
                /\ 0 <= v /\ v < params.n
                /\ b_pub > interm => b_pub - interm >= 0
                /\ b_pub <= interm => params.n + b_pub - interm >= 0
                /\ Derived(s).key =
                       Digest(to_bytes_le(PowMod(v, HandshakeExponent(s),
                                                 params.n)))

\* A key was derived from a B below interm, where v = B - interm + N.
C15_Witness ==
    \E s \in Sessions :
        /\ Accepted(s)
        /\ BPubOf(s) < HandshakeInterm(s)
        /\ HandshakeV(s) = BPubOf(s) + params.n - HandshakeInterm(s)
        /\ HandshakeV(s) > 0

\* C16: the verifier process_reply returns holds K = H(S), M1 = H(A || B || K)
\* and M2 = H(A || M1 || K), in this order of the inputs, with S computed from
\* u = H(A || B), A the public ephemeral g^a mod N of the session, and M2
\* built from the M1 and K of the same call.
C16_HashChaining ==
    \A s \in Sessions :
        Returning(s) =>
            \A K \in {Digest(to_bytes_le(HandshakeS(s)))} :
                LET A == HandshakeABytes(s)
                    M1 == Digest(A \o to_bytes_le(BPubOf(s)) \o K)
                    M2 == Digest(A \o M1 \o K)
                IN  /\ A = to_bytes_le(PowMod(params.g, handshake[s].client.a,
                                              params.n))
                    /\ Derived(s) =
                           [proof |-> M1, server_proof |-> M2, key |-> K]

\* A verifier was returned whose M1 and M2 differ, and differ from what the
\* other order of the inputs would give.
C16_Witness ==
    \E s \in Sessions :
        /\ Accepted(s)
        /\ verifier[s] = <<Derived(s)>>
        /\ Derived(s).proof # Derived(s).server_proof
        /\ Derived(s).server_proof #
               Digest(Derived(s).proof \o HandshakeABytes(s) \o Derived(s).key)
        /\ Derived(s).proof #
               Digest(to_bytes_le(BPubOf(s)) \o HandshakeABytes(s)
                          \o Derived(s).key)

\* C17: sessions are independent.  A step changes at most one session and
\* leaves a, A, M1, M2, K and the life state of every other session, and the
\* parameters, as they were; what a call returns is computed from the inputs
\* of its own session, whatever was called on the other one in between.
C17_SessionsIndependent ==
    [][/\ params' = params
       /\ \A s \in Sessions : \A t \in Sessions \ {s} :
              SessionView(s)' # SessionView(s) =>
                  /\ SessionView(t)' = SessionView(t)
                  /\ LifeState(t)' = LifeState(t)
       /\ \A s \in Sessions :
              /\ Accepted(s)' =>
                     handshake'[s].verifier =
                         process_reply(params, handshake'[s].client,
                                       handshake'[s].private_key,
                                       handshake'[s].b_pub).verifier
              /\ (last'[s].op = "new" /\ client'[s] # <<>>) =>
                     client'[s][1] = new_client(params, last'[s].arg)
              /\ (last'[s].op = "get_key" /\ last'[s] # last[s]) =>
                     last'[s].val = Derived(s).key
              /\ (last'[s].op = "verify_server" /\ last'[s] # last[s]) =>
                     (last'[s].ok <=> last'[s].arg = Derived(s).server_proof)]_vars

\* Two sessions with different a, one authenticated and one still before its
\* handshake.
C17_Witness ==
    /\ Sessions = {1, 2}
    /\ LifeState(1) = "Authenticated"
    /\ LifeState(2) = "SessionStarted"
    /\ handshake[1].client.a # client[2][1].a
    /\ last[2].op = "get_a_pub"

\* C18 as claimed: new fails only when the random source fails, and then
\* returns an explicit RandomSourceFailure error and no session; otherwise
\* it returns a session.
C18_Original ==
    \A s \in Sessions :
        last[s].op = "new" =>
            /\ last[s].ok => client[s] # <<>>
            /\ ~last[s].ok =>
                   /\ last[s] = Failed("new", last[s].arg, "RandomSourceFailure")
                   /\ client[s] = <<>>

\* C18, amended: new has no error result.  When the random source yields
\* its bits(N)/8 bytes new returns the session built from them; when the
\* random source fails, the failure is a panic that unwinds through new, no
\* value is returned and no session or verifier exists.
C18_NewHasNoErrorResult ==
    \A s \in Sessions :
        last[s].op = "new" =>
            /\ last[s].kind # "error"
            /\ last[s].err = ""
            /\ last[s].ok =>
                   /\ Len(last[s].arg) = rand_len(params)
                   /\ client[s] = << new_client(params, last[s].arg) >>
                   /\ LifeState(s) = "SessionStarted"
            /\ ~last[s].ok =>
                   /\ last[s] = Panicked("new", <<>>)
                   /\ client[s] = <<>>
                   /\ verifier[s] = <<>>
                   /\ handshake[s] = NoHandshake

\* The random source failed in new: the call panicked and there is no session.
C18_Witness ==
    \E s \in Sessions :
        /\ last[s] = Panicked("new", <<>>)
        /\ client[s] = <<>>
        /\ verifier[s] = <<>>

\* C19: process_reply has one error outcome.  It returns the error
\* "Malicious b_pub value" exactly when B mod N = 0; for every other B and
\* every private key, the empty and the zero key and B >= N included, it
\* returns a verifier holding M1, M2 and K.
C19_SingleErrorOutcome ==
    \A s \in Sessions :
        calls[s].process_reply > 0 =>
            /\ Accepted(s) <=> BPubOf(s) % params.n # 0
            /\ handshake[s].key_derived <=> Accepted(s)
            /\ last[s].op = "process_reply" =>
                   /\ last[s].ok <=> BPubOf(s) % params.n # 0
                   /\ ~last[s].ok =>
                          /\ last[s] = Failed("process_reply", handshake[s].b_pub,
                                              "Malicious b_pub value")
                          /\ verifier[s] = <<>>
                   /\ last[s].ok =>
                          /\ last[s].kind = "verifier"
                          /\ verifier[s] = << Derived(s) >>
            /\ Returning(s) =>
                   /\ DOMAIN Derived(s) = {"proof", "server_proof", "key"}
                   /\ Derived(s).key = Digest(to_bytes_le(HandshakeS(s)))
                   /\ Len(Derived(s).proof) = Len(Derived(s).key)
                   /\ Len(Derived(s).server_proof) = Len(Derived(s).key)

\* process_reply returned a verifier for the empty private key (x = 0) and a
\* B of N or more.
C19_Witness ==
    \E s \in Sessions :
        /\ last[s].op = "process_reply"
        /\ last[s].ok
        /\ handshake[s].private_key = <<>>
        /\ BPubOf(s) > params.n
        /\ verifier[s] = << Derived(s) >>

\* C20: u is hashed over the bytes of B as received, M1 over the integer B
\* serialized again.  For the b_pub of an accepted handshake and the same
\* bytes with a high-order zero byte appended, the integer B and the B part
\* of M1's input are the same, the B part of u's input and u differ, and M1
\* is H(A || to_bytes_le(B) || K) with the K of either call.
C20_TwoEncodingsOfB ==
    \A s \in Sessions :
        Returning(s) =>
            LET raw == handshake[s].b_pub
                padded == raw \o <<0>>
                c == handshake[s].client
            IN  /\ from_bytes_le(padded) = BPubOf(s)
                /\ to_bytes_le(from_bytes_le(padded)) = to_bytes_le(BPubOf(s))
                /\ padded # raw
                /\ calc_u(c.a_pub, padded) # calc_u(c.a_pub, raw)
                /\ Derived(s).key =
                       calc_key(params, c.a, BPubOf(s), HandshakeX(s),
                                HandshakeU(s))
                /\ Derived(s).proof =
                       Digest(HandshakeABytes(s) \o to_bytes_le(BPubOf(s))
                                  \o Derived(s).key)
                /\ \A r \in {process_reply(params, c,
                                            handshake[s].private_key, padded)} :
                       /\ r.ok
                       /\ r.verifier[1].proof =
                              Digest(HandshakeABytes(s)
                                         \o to_bytes_le(BPubOf(s))
                                         \o r.verifier[1].key)

\* A b_pub with a high-order zero byte was accepted, and K, M1 and M2 all
\* differ from those of the canonical bytes of the same integer.
C20_Witness ==
    \E s \in Sessions :
        /\ Accepted(s)
        /\ handshake[s].b_pub # to_bytes_le(BPubOf(s))
        /\ LET r == process_reply(params, handshake[s].client,
                                  handshake[s].private_key,
                                  to_bytes_le(BPubOf(s)))
           IN  /\ r.ok
               /\ r.verifier[1].key # Derived(s).key
               /\ r.verifier[1].proof # Derived(s).proof
               /\ r.verifier[1].server_proof # Derived(s).server_proof

====
